---- MODULE Spec2Model ----
(***************************************************************************)
(* Streak-camera calibration tools: Bias_Voltage_Setting.py,               *)
(* CTR_Calculator.py and FWHM_Calculator.py.                               *)
(*                                                                         *)
(* Each script is a single-threaded batch run over one image.  A run is    *)
(* modelled as a program counter stepping through the script's statements. *)
(* Library calls (numpy mean, scipy find_peaks / argrelmin / curve_fit)    *)
(* are not re-implemented: their results are inputs drawn from bounded     *)
(* sets (a PeakSet is a strictly increasing sequence of column indices).   *)
(***************************************************************************)
EXTENDS Integers, Sequences, FiniteSets, TLC

(***************************************************************************)
(* Bounds of the model                                                     *)
(***************************************************************************)
\* largest number of swath row starts (rows - swath_size) of an image
MaxStarts == 2
\* user parameter ranges of the bias tool
MaxNumPeaks == 3
MaxEveryN == 2
MaxSkip == 1
\* spacing-loop inputs: longest PeakSet and widest comb spacing
MaxPeaks == 8
MaxSpacing == 10
\* CTR tool: columns of a lineout, swath height (user parameter, line 30)
\* and the largest number of swath row starts of an image
LineLen == 70
CtrSwathSize == 1
MaxCtrStarts == 3
\* background estimation: number of samples of an image
MaxPixels == 3
\* FWHM tool: longest stretch of None rows between runs of data
MaxGap == 2

(***************************************************************************)
(* Bias_Voltage_Setting.py                                                 *)
(***************************************************************************)
VARIABLES
    num_peaks, every_n_peaks, skip_peaks_left, skip_peaks_right,
    img,            \* the image array: [orient, rows, counts]
    swath_start,    \* result of best_lineout, -1 when none
    lineout,        \* the swath the lineout was taken from: [orient, start]
    peaks,          \* PeakSet of the lineout
    peaks_counted,  \* peaks used by the two flanks, in order of use
    avg_space_left, avg_space_right, difference,   \* rationals [num, den]
    i,              \* loop variable of the spacing loops
    scans,          \* log of the best_lineout calls: <<[img, result], ...>>
    bpc             \* position in the script

bvars == <<num_peaks, every_n_peaks, skip_peaks_left, skip_peaks_right, img,
           swath_start, lineout, peaks, peaks_counted, avg_space_left,
           avg_space_right, difference, i, scans, bpc>>

\* CTR_Calculator.py
VARIABLES
    pixels,         \* the flattened image samples (background estimation)
    background, stdev,
    cimg,           \* the image: [rows, swaths], swaths[k+1] the lineout of
                    \* the swath at row start k
    swath,          \* the lineout last passed to get_ctr
    image_ctr,      \* the CTR map, a sequence of CTR rows
    l, r,           \* limits returned by the last get_ctr call
    left_limit, right_limit,
    x, y,           \* points of interest
    poi,            \* CTR values read at the points of interest
    ci,             \* loop variable
    cpc             \* position in the script

cvars == <<pixels, background, stdev, cimg, swath, image_ctr, l, r,
           left_limit, right_limit, x, y, poi, ci, cpc>>

\* FWHM_Calculator.py
VARIABLES
    fwhm,           \* per-row FWHM or None
    start, end,     \* valid span
    one_fourth, halfway, three_fourths,
    one_fourth_fwhm, halfway_fwhm, three_fourths_fwhm,
    fpc             \* position in the script

fvars == <<fwhm, start, end, one_fourth, halfway, three_fourths,
           one_fourth_fwhm, halfway_fwhm, three_fourths_fwhm, fpc>>

vars == <<bvars, cvars, fvars>>

\* Python's None
None == -1

swath_size == 10
min_distance == 3

\* line 84
min_peaks == 2*num_peaks*every_n_peaks + skip_peaks_left + skip_peaks_right

\* Python sequence indexing: index k >= 0 from the front, k < 0 from the end
At(s, k) == IF k >= 0 THEN s[k + 1] ELSE s[Len(s) + k + 1]

\* Python append
Append2(s, a, b) == Append(Append(s, a), b)

\* A PeakSet with n peaks, spacings alternating min_distance+1, min_distance
Comb(n) == [k \in 1..n |-> min_distance*k + (k \div 2)]

\* np.mean(img[i:i+swath_size], axis=0) followed by find_peaks(..., height,
\* distance): the image is represented by the number of peaks the detector
\* finds in the swath at each row start.
FindPeaksAt(image, row) == Comb(image.counts[row + 1])

\* range(len(image) - swath_size)
RowStarts(image) ==
    IF image.rows > swath_size THEN 0..(image.rows - swath_size - 1) ELSE {}

\* line 64 mutated: the factor on the wrong side of the comparison
IsCandidateHalved(pk, min_p) == Len(pk)*2 > min_p

\* line 64
IsCandidate(pk, min_p) == Len(pk) > min_p*2

\* lines 58-66: the row starts kept in lineout_index, in scan order
RECURSIVE LineoutIndex(_, _, _)
LineoutIndex(image, min_p, row) ==
    IF row \notin RowStarts(image) THEN <<>>
    ELSE IF IsCandidate(FindPeaksAt(image, row), min_p)
         THEN <<row>> \o LineoutIndex(image, min_p, row + 1)
         ELSE LineoutIndex(image, min_p, row + 1)

\* lines 68-73: first swath with strictly more peaks than all before it
RECURSIVE PickBest(_, _, _, _, _)
PickBest(image, lineout_index, k, max_peaks, best_swath) ==
    IF k > Len(lineout_index) THEN best_swath
    ELSE LET n == Len(FindPeaksAt(image, lineout_index[k]))
         IN  IF n > max_peaks
             THEN PickBest(image, lineout_index, k + 1, n, lineout_index[k])
             ELSE PickBest(image, lineout_index, k + 1, max_peaks, best_swath)

\* lines 56-76
best_lineout(image, min_p) ==
    PickBest(image, LineoutIndex(image, min_p, 0), 1, 0, -1)

\* lines 89, 93 mutated: condition inverted
NoneFoundInverted(s) == s # -1

\* lines 89, 93: swath_start == -1
NoneFound(s) == s = -1

\* Peak counts a swath may show, chosen around the thresholds in play
PeakCounts == {min_peaks \div 2 + 1, 2*min_peaks, 2*min_peaks + 1, 2*min_peaks + 2}

RECURSIVE SeqsOf(_, _)
SeqsOf(S, n) ==
    IF n = 0 THEN {<<>>}
    ELSE {Append(s, e) : s \in SeqsOf(S, n - 1), e \in S}

\* the images of one orientation: swath_size + n rows, n row starts
Views(o) ==
    UNION {{[orient |-> o, rows |-> swath_size + n, counts |-> c] :
               c \in SeqsOf(PeakCounts, n)} : n \in 0..MaxStarts}

Zero == [num |-> 0, den |-> 1]

\* lines 37-52, 80-81: parameters set, image loaded
BiasParams ==
    /\ num_peaks \in 2..MaxNumPeaks
    /\ every_n_peaks \in 1..MaxEveryN
    /\ skip_peaks_left \in 0..MaxSkip
    /\ skip_peaks_right \in 0..MaxSkip

BiasIdle ==
    /\ swath_start = -1
    /\ lineout = [orient |-> "none", start |-> -1]
    /\ peaks_counted = <<>>
    /\ avg_space_left = Zero
    /\ avg_space_right = Zero
    /\ difference = Zero
    /\ i = 0
    /\ scans = <<>>

\* the other two scripts are not running
CtrOff ==
    /\ pixels = <<>> /\ background = None /\ stdev = None
    /\ cimg = [rows |-> 0, swaths |-> <<>>]
    /\ swath = None /\ image_ctr = <<>> /\ l = None /\ r = None
    /\ left_limit = <<>> /\ right_limit = <<>>
    /\ x = <<>> /\ y = <<>> /\ poi = <<>> /\ ci = 0 /\ cpc = "off"

FwhmOff ==
    /\ fwhm = <<>> /\ start = 0 /\ end = 0
    /\ one_fourth = 0 /\ halfway = 0 /\ three_fourths = 0
    /\ one_fourth_fwhm = None /\ halfway_fwhm = None
    /\ three_fourths_fwhm = None /\ fpc = "off"

BiasOff ==
    /\ num_peaks = 2 /\ every_n_peaks = 1
    /\ skip_peaks_left = 0 /\ skip_peaks_right = 0
    /\ img = [orient |-> "orig", rows |-> swath_size, counts |-> <<>>]
    /\ peaks = <<>>
    /\ BiasIdle
    /\ bpc = "off"

BiasInit ==
    /\ BiasParams
    /\ img \in Views("orig")
    /\ peaks = <<>>
    /\ BiasIdle
    /\ bpc = "select"

\* line 87
Select ==
    /\ bpc = "select"
    /\ UNCHANGED <<cvars, fvars>>
    /\ swath_start' = best_lineout(img, min_peaks)
    /\ scans' = Append(scans, [img |-> img, result |-> swath_start'])
    /\ bpc' = "fallback"
    /\ UNCHANGED <<num_peaks, every_n_peaks, skip_peaks_left, skip_peaks_right,
                   img, lineout, peaks, peaks_counted, avg_space_left,
                   avg_space_right, difference, i>>

\* lines 89-91: np.rot90 gives the other orientation's array, whose swaths
\* show peak counts of their own
Fallback ==
    /\ bpc = "fallback"
    /\ UNCHANGED <<cvars, fvars>>
    /\ IF NoneFound(swath_start)
       THEN /\ img' \in Views("rot")
            /\ swath_start' = best_lineout(img', min_peaks)
            /\ scans' = Append(scans, [img |-> img', result |-> swath_start'])
       ELSE UNCHANGED <<img, swath_start, scans>>
    /\ bpc' = "validate"
    /\ UNCHANGED <<num_peaks, every_n_peaks, skip_peaks_left, skip_peaks_right,
                   lineout, peaks, peaks_counted, avg_space_left,
                   avg_space_right, difference, i>>

\* lines 93-94
Validate ==
    /\ bpc = "validate"
    /\ UNCHANGED <<cvars, fvars>>
    /\ bpc' = IF NoneFound(swath_start) THEN "err_image" ELSE "lineout"
    /\ UNCHANGED <<num_peaks, every_n_peaks, skip_peaks_left, skip_peaks_right,
                   img, swath_start, lineout, peaks, peaks_counted,
                   avg_space_left, avg_space_right, difference, i, scans>>

\* lines 97-106
GetLineout ==
    /\ bpc = "lineout"
    /\ UNCHANGED <<cvars, fvars>>
    /\ lineout' = [orient |-> img.orient, start |-> swath_start]
    /\ peaks' = FindPeaksAt(img, swath_start)
    /\ peaks_counted' = <<>>
    /\ avg_space_left' = Zero
    /\ i' = 0
    /\ bpc' = "left"
    /\ UNCHANGED <<num_peaks, every_n_peaks, skip_peaks_left, skip_peaks_right,
                   img, swath_start, avg_space_right, difference, scans>>

\* lines 107-117: one iteration of the left loop, or its exit (118, 122)
LeftStep ==
    /\ bpc = "left"
    /\ UNCHANGED <<cvars, fvars>>
    /\ IF i < (num_peaks - 1)*every_n_peaks
       THEN LET st == i + skip_peaks_left
            IN  IF st + every_n_peaks >= Len(peaks)
                THEN /\ bpc' = "err_peaks"
                     /\ UNCHANGED <<avg_space_left, avg_space_right,
                                    peaks_counted, i>>
                ELSE /\ UNCHANGED avg_space_right
                     /\ avg_space_left' =
                            [avg_space_left EXCEPT !.num =
                                @ + At(peaks, st + every_n_peaks) - At(peaks, st)]
                     /\ peaks_counted' =
                            IF i = 0
                            THEN Append2(peaks_counted, At(peaks, st),
                                         At(peaks, st + every_n_peaks))
                            ELSE Append(peaks_counted, At(peaks, st + every_n_peaks))
                     /\ i' = i + every_n_peaks
                     /\ bpc' = "left"
       ELSE /\ avg_space_left' = [avg_space_left EXCEPT !.den = num_peaks - 1]
            /\ avg_space_right' = Zero
            /\ i' = (num_peaks - 2)*every_n_peaks
            /\ bpc' = "right"
            /\ UNCHANGED peaks_counted
    /\ UNCHANGED <<num_peaks, every_n_peaks, skip_peaks_left, skip_peaks_right,
                   img, swath_start, lineout, peaks, difference, scans>>

\* line 125 mutated: the -1 that makes the index count from the end dropped
RightStartNoOffset(k) == -k - skip_peaks_right

\* line 125
RightStart(k) == -k - skip_peaks_right - 1

\* lines 123-133: one iteration of the right loop (reversed range), or its
\* exit (134)
RightStep ==
    /\ bpc = "right"
    /\ UNCHANGED <<cvars, fvars>>
    /\ IF i >= 0
       THEN LET st == RightStart(i)
            IN  IF st - every_n_peaks < -Len(peaks)
                THEN /\ bpc' = "err_peaks"
                     /\ UNCHANGED <<avg_space_right, peaks_counted, i>>
                ELSE /\ avg_space_right' =
                            [avg_space_right EXCEPT !.num =
                                @ + At(peaks, st) - At(peaks, st - every_n_peaks)]
                     /\ peaks_counted' =
                            IF i = 0
                            THEN Append2(peaks_counted, At(peaks, st - every_n_peaks),
                                         At(peaks, st))
                            ELSE Append(peaks_counted, At(peaks, st - every_n_peaks))
                     /\ i' = i - every_n_peaks
                     /\ bpc' = "right"
       ELSE /\ avg_space_right' = [avg_space_right EXCEPT !.den = num_peaks - 1]
            /\ bpc' = "report"
            /\ UNCHANGED <<peaks_counted, i>>
    /\ UNCHANGED <<num_peaks, every_n_peaks, skip_peaks_left, skip_peaks_right,
                   img, swath_start, lineout, peaks, avg_space_left,
                   difference, scans>>

\* line 138: avg_space_left - avg_space_right
Report ==
    /\ bpc = "report"
    /\ UNCHANGED <<cvars, fvars>>
    /\ difference' =
          [num |-> avg_space_left.num*avg_space_right.den
                     - avg_space_right.num*avg_space_left.den,
           den |-> avg_space_left.den*avg_space_right.den]
    /\ bpc' = "done"
    /\ UNCHANGED <<num_peaks, every_n_peaks, skip_peaks_left, skip_peaks_right,
                   img, swath_start, lineout, peaks, peaks_counted,
                   avg_space_left, avg_space_right, i, scans>>

BiasNext ==
    \/ Select
    \/ Fallback
    \/ Validate
    \/ GetLineout
    \/ LeftStep
    \/ RightStep
    \/ Report

InitBias == BiasInit /\ CtrOff /\ FwhmOff

SpecBias == InitBias /\ [][BiasNext]_vars
(***************************************************************************)
(* The spacing loops (lines 103-138) on their own: any PeakSet, whether or *)
(* not a scan would have selected it.                                      *)
(***************************************************************************)
\* n peaks, the first at d, spaced d, the second half shifted by bump
CombOf(n, d, bump) ==
    [k \in 1..n |-> d*k + (IF 2*k > n THEN bump ELSE 0)]

SpacingInit ==
    /\ BiasParams
    /\ img = [orient |-> "orig", rows |-> swath_size, counts |-> <<>>]
    /\ peaks \in {CombOf(n, d, bump) : n \in 0..MaxPeaks, d \in 2..MaxSpacing,
                                       bump \in {0, 1}}
    /\ BiasIdle
    /\ bpc = "left"

SpacingNext ==
    \/ LeftStep
    \/ RightStep
    \/ Report

InitSpacing == SpacingInit /\ CtrOff /\ FwhmOff

SpecSpacing == InitSpacing /\ [][SpacingNext]_vars

(***************************************************************************)
(* CTR_Calculator.py                                                       *)
(***************************************************************************)
\* line 48-49: half width of the 40-pixel window
HalfWindow == 20
left_offset == 0
right_offset == 0

SetMax(S) == CHOOSE m \in S : \A e \in S : e <= m
SetMin(S) == CHOOSE m \in S : \A e \in S : m <= e

RECURSIVE SumSeq(_)
SumSeq(s) == IF s = <<>> THEN 0 ELSE Head(s) + SumSeq(Tail(s))

\* A lineout is given by the intensities at the columns where
\* find_peaks(line, width=3) may report a peak (pv) and where
\* argrelmin(line) may report a minimum (mv); None: nothing reported there.
PeakCols == {10, 55}
MinCols == {25, 60}

Lineouts(PV, MV) == [pv : [PeakCols -> PV], mv : [MinCols -> MV]]

\* line[c]
LineAt(ln, c) ==
    IF c \in PeakCols /\ ln.pv[c] # None THEN ln.pv[c]
    ELSE IF c \in MinCols /\ ln.mv[c] # None THEN ln.mv[c]
    ELSE 1000

\* line 40: peaks, line 42: mins
PeaksOf(ln) == {c \in PeakCols : ln.pv[c] # None}
MinsOf(ln) == {c \in MinCols : ln.mv[c] # None}

\* lines 49, 61: indices strictly inside (c-20, c+20)
InWindow(S, c) == {p \in S : p > c - HalfWindow /\ p < c + HalfWindow}

\* line 57 mutated: <= for <
InsignificantOrEqual(max_peak) == max_peak <= background + stdev

\* line 57
Insignificant(max_peak) == max_peak < background + stdev

\* line 65: result > 1.0 for result = num/den in floating point, where a
\* zero divisor gives inf, -inf or nan and no exception
GreaterThanOne(num, den) ==
    IF den > 0 THEN num > den
    ELSE IF den < 0 THEN num < den
    ELSE num > 0

\* lines 49-71: one iteration of the loop of get_ctr; st = [ctr, non_zero, err]
CtrIteration(ln, c, st) ==
    LET window_peaks == {LineAt(ln, p) : p \in InWindow(PeaksOf(ln), c)}
    IN  IF window_peaks = {}
        THEN [st EXCEPT !.ctr = Append(@, Zero)]
        ELSE
          LET max_peak == SetMax(window_peaks)
              window_mins == {LineAt(ln, p) : p \in InWindow(MinsOf(ln), c)}
              min_val == SetMin(window_mins)
              num == max_peak - min_val
              den == max_peak + min_val - 2*background
              body ==
                IF Insignificant(max_peak)
                THEN [st EXCEPT !.ctr = Append(@, Zero)]
                ELSE IF window_mins = {}
                THEN [st EXCEPT !.err = "ValueError"]
                ELSE IF GreaterThanOne(num, den)
                THEN [st EXCEPT !.ctr = Append(@, Zero)]
                ELSE [st EXCEPT !.ctr = Append(@, [num |-> num, den |-> den]),
                                !.non_zero = Append(@, c)]
          IN  IF body.err = "none" /\ Len(body.non_zero) = 0
              THEN [body EXCEPT !.non_zero = Append(@, None)]
              ELSE body

\* line 48: for i in range(20, len(line)-20)
RECURSIVE CtrLoop(_, _, _)
CtrLoop(ln, c, st) ==
    IF c >= LineLen - HalfWindow \/ st.err # "none" THEN st
    ELSE CtrLoop(ln, c + 1, CtrIteration(ln, c, st))

\* lines 38-73
get_ctr(ln) ==
    LET st == CtrLoop(ln, HalfWindow, [ctr |-> <<>>, non_zero |-> <<>>, err |-> "none"])
    IN  IF st.err # "none"
        THEN [err |-> st.err, ctr |-> <<>>, l |-> None, r |-> None]
        ELSE IF st.non_zero = <<>>
        THEN [err |-> "IndexError", ctr |-> <<>>, l |-> None, r |-> None]
        ELSE [err |-> "none", ctr |-> st.ctr,
              l |-> st.non_zero[1], r |-> st.non_zero[Len(st.non_zero)]]

\* lines 119, 121: truth value of an int-or-None
Truthy(v) == v # None /\ v # 0

\* range(len(img) - swath_size)
CtrRowStarts == cimg.rows - CtrSwathSize

CtrInit(images, devs) ==
    /\ pixels = <<>>
    /\ background \in {0, 650}
    /\ stdev \in devs
    /\ cimg \in images
    /\ swath = None /\ image_ctr = <<>> /\ l = None /\ r = None
    /\ left_limit = <<>> /\ right_limit = <<>>
    /\ x = <<>> /\ y = <<>> /\ poi = <<>> /\ ci = 0
    /\ cpc = "first"

\* lines 104-108
FirstLine ==
    /\ cpc = "first"
    /\ UNCHANGED <<bvars, fvars>>
    /\ swath' = cimg.swaths[1]
    /\ LET res == get_ctr(swath')
       IN  IF res.err # "none"
           THEN /\ cpc' = res.err
                /\ UNCHANGED <<image_ctr, l, r>>
           ELSE /\ image_ctr' = <<res.ctr>>
                /\ l' = res.l
                /\ r' = res.r
                /\ cpc' = "loop"
    /\ left_limit' = <<>>
    /\ right_limit' = <<>>
    /\ ci' = 0
    /\ UNCHANGED <<pixels, background, stdev, cimg, x, y, poi>>

\* lines 111-122: one iteration
MapStep ==
    /\ cpc = "loop"
    /\ UNCHANGED <<bvars, fvars>>
    /\ ci < CtrRowStarts
    /\ swath' = cimg.swaths[ci + 1]
    /\ LET res == get_ctr(swath')
       IN  IF res.err # "none"
           THEN /\ cpc' = res.err
                /\ UNCHANGED <<image_ctr, l, r, left_limit, right_limit, ci>>
           ELSE /\ image_ctr' = Append(image_ctr, res.ctr)
                /\ l' = res.l
                /\ r' = res.r
                /\ left_limit' = IF Truthy(res.l) THEN Append(left_limit, res.l)
                                 ELSE left_limit
                /\ right_limit' = IF Truthy(res.r) THEN Append(right_limit, res.r)
                                  ELSE right_limit
                /\ ci' = ci + 1
                /\ cpc' = "loop"
    /\ UNCHANGED <<pixels, background, stdev, cimg, x, y, poi>>

\* lines 125-126: np.mean of the list plus the offset, nan ([0, 0]) for
\* an empty list
MeanPlus(list, offset) ==
    IF list = <<>> THEN [num |-> 0, den |-> 0]
    ELSE [num |-> SumSeq(list) + offset*Len(list), den |-> Len(list)]

Limits ==
    /\ cpc = "loop"
    /\ UNCHANGED <<bvars, fvars>>
    /\ ci >= CtrRowStarts
    /\ left_limit' = MeanPlus(left_limit, left_offset)
    /\ right_limit' = MeanPlus(right_limit, right_offset)
    /\ cpc' = "points"
    /\ UNCHANGED <<pixels, background, stdev, cimg, swath, image_ctr, l, r,
                   x, y, poi, ci>>

\* lines 139-141: int((a*left_limit + b*right_limit) // d)
Blend(a, b, d) ==
    (a*left_limit.num*right_limit.den + b*right_limit.num*left_limit.den)
        \div (d*left_limit.den*right_limit.den)

\* lines 134-141
Points ==
    /\ cpc = "points"
    /\ UNCHANGED <<bvars, fvars>>
    /\ y' = [k \in 1..9 |-> IF k <= 3 THEN cimg.rows \div 4
                            ELSE IF k <= 6 THEN cimg.rows \div 2
                            ELSE (cimg.rows*3) \div 4]
    /\ IF left_limit.den = 0 \/ right_limit.den = 0
       THEN /\ cpc' = "err_nan"
            /\ UNCHANGED x
       ELSE /\ x' = [k \in 1..9 |-> IF k % 3 = 1 THEN Blend(3, 1, 4)
                                    ELSE IF k % 3 = 2 THEN Blend(1, 1, 2)
                                    ELSE Blend(1, 3, 4)]
            /\ cpc' = "lookup"
    /\ ci' = 0
    /\ UNCHANGED <<pixels, background, stdev, cimg, swath, image_ctr, l, r,
                   left_limit, right_limit, poi>>

\* lines 150-151: image_ctr[y[i]][x[i]], one iteration
Lookup ==
    /\ cpc = "lookup"
    /\ UNCHANGED <<bvars, fvars>>
    /\ IF y[ci + 1] >= Len(image_ctr) \/ x[ci + 1] >= Len(image_ctr[y[ci + 1] + 1])
       THEN /\ cpc' = "LookupIndexError"
            /\ UNCHANGED <<poi, ci>>
       ELSE /\ poi' = Append(poi, image_ctr[y[ci + 1] + 1][x[ci + 1] + 1])
            /\ ci' = ci + 1
            /\ cpc' = IF ci = 8 THEN "done" ELSE "lookup"
    /\ UNCHANGED <<pixels, background, stdev, cimg, swath, image_ctr, l, r,
                   left_limit, right_limit, x, y>>

CtrNext ==
    \/ FirstLine
    \/ MapStep
    \/ Limits
    \/ Points
    \/ Lookup

\* get_ctr on every lineout of the family: an image of one swath row start
GetCtrInit ==
    CtrInit({[rows |-> CtrSwathSize + 1, swaths |-> <<ln, ln>>] :
                ln \in Lineouts({None, 100, 700, 2000}, {None, 0, 600, 650})},
            {50, 1400})

InitGetCtr == GetCtrInit /\ BiasOff /\ FwhmOff

SpecGetCtr == InitGetCtr /\ [][CtrNext]_vars

\* the CTR map of images of up to MaxCtrStarts swath row starts
MapLines == {ln \in Lineouts({None, 100, 2000}, {650}) : ln.pv[55] # 100}

MapInit ==
    CtrInit(UNION {{[rows |-> CtrSwathSize + n, swaths |-> sw] :
                      sw \in SeqsOf(MapLines, n + 1)} : n \in 0..MaxCtrStarts},
            {50})

InitCTR == MapInit /\ BiasOff /\ FwhmOff

SpecCTR == InitCTR /\ [][CtrNext]_vars

(***************************************************************************)
(* CTR_Calculator.py, lines 96-99: background estimate                     *)
(***************************************************************************)
\* line 97: np.linspace(0, 65000, 101), edges of NumBins bins
NumBins == 100
MaxCount == 65000

Bins(k) == (MaxCount * k) \div NumBins

\* line 98: np.digitize(v, bins): the i with bins[i-1] <= v < bins[i]
Digitize(v) == Cardinality({k \in 0..NumBins : Bins(k) <= v})

Occurrences(s, v) == Cardinality({k \in 1..Len(s) : s[k] = v})

\* line 99: stats.mode, the smallest of the most frequent values
Mode(s) ==
    LET most == {v \in {s[k] : k \in 1..Len(s)} :
                    \A k \in 1..Len(s) : Occurrences(s, s[k]) <= Occurrences(s, v)}
    IN  SetMin(most)

\* unsigned 16-bit samples at the edges of the first bins, of the last bin
\* and of the type
Samples == {0, 649, 650, 1299, 64999, 65000, 65535}

BackgroundInit ==
    /\ pixels \in UNION {SeqsOf(Samples, n) : n \in 1..MaxPixels}
    /\ background = None /\ stdev = None
    /\ cimg = [rows |-> 0, swaths |-> <<>>]
    /\ swath = None /\ image_ctr = <<>> /\ l = None /\ r = None
    /\ left_limit = <<>> /\ right_limit = <<>>
    /\ x = <<>> /\ y = <<>> /\ poi = <<>> /\ ci = 0
    /\ cpc = "estimate"

\* lines 97-99
Estimate ==
    /\ cpc = "estimate"
    /\ UNCHANGED <<bvars, fvars>>
    /\ LET bin_indices == [k \in 1..Len(pixels) |-> Digitize(pixels[k])]
           m == Mode(bin_indices)
       IN  IF m > NumBins
           THEN /\ cpc' = "BinIndexError"
                /\ UNCHANGED background
           ELSE /\ background' = Bins(m)
                /\ cpc' = "estimated"
    /\ UNCHANGED <<pixels, stdev, cimg, swath, image_ctr, l, r, left_limit,
                   right_limit, x, y, poi, ci>>

BackgroundNext == Estimate

InitBackground == BackgroundInit /\ BiasOff /\ FwhmOff

SpecBackground == InitBackground /\ [][BackgroundNext]_vars

(***************************************************************************)
(* FWHM_Calculator.py                                                      *)
(***************************************************************************)
all_offset == 0
one_fourth_offset == 0
halfway_offset == 0
three_fourths_offset == 0
\* lines 128, 140: consecutive data points that define the start and end
RunLength == 5
\* line 81: range(roi - 20, roi + 20)
AvgRadius == 20

\* lines 82, 124, 136: "if fwhm[i]:"
IsData(v) == v # None /\ v # 0

\* lines 123-130; start stays 0 when the loop ends without a break
RECURSIVE StartLoop(_, _, _)
StartLoop(f, k, count) ==
    IF k >= Len(f) THEN 0
    ELSE LET cnt == IF IsData(At(f, k)) THEN count + 1 ELSE 0
         IN  IF cnt = RunLength THEN k ELSE StartLoop(f, k + 1, cnt)

\* lines 134-142
RECURSIVE EndLoop(_, _, _)
EndLoop(f, k, count) ==
    IF k < 0 THEN 0
    ELSE LET cnt == IF IsData(At(f, k)) THEN count + 1 ELSE 0
         IN  IF cnt = RunLength THEN k ELSE EndLoop(f, k - 1, cnt)

\* lines 81-84; acc = [values, tot, err]
RECURSIVE AvgLoop(_, _, _, _)
AvgLoop(f, k, stop, acc) ==
    IF k >= stop THEN acc
    ELSE IF k >= Len(f) \/ k < -Len(f) THEN [acc EXCEPT !.err = "IndexError"]
    ELSE IF IsData(At(f, k))
         THEN AvgLoop(f, k + 1, stop,
                      [acc EXCEPT !.values = @ + At(f, k), !.tot = @ + 1])
         ELSE AvgLoop(f, k + 1, stop, acc)

\* lines 78-85
get_avg_fwhm(roi, f) ==
    LET acc == AvgLoop(f, roi - AvgRadius, roi + AvgRadius,
                       [values |-> 0, tot |-> 0, err |-> "none"])
    IN  IF acc.err # "none" THEN [err |-> acc.err, val |-> None]
        ELSE IF acc.tot = 0 THEN [err |-> "ZeroDivisionError", val |-> None]
        ELSE [err |-> "none", val |-> acc.values \div acc.tot]

\* n rows of one kind: a ramp 1, 2, 3, ..., all 0, or 0 and 4 in turn
Run(kind, n) ==
    [j \in 1..n |-> IF kind = "ramp" THEN j
                    ELSE IF kind = "zero" THEN 0
                    ELSE IF j % 2 = 1 THEN 0 ELSE 4]

Gap(n) == [j \in 1..n |-> None]

RunLengths == {0, 4, 5, 6, 24, 45}

\* get_fwhm results: two runs of fitted rows between stretches of None
FwhmLists ==
    {Gap(a) \o Run(k1, b) \o Gap(c) \o Run(k2, d) \o Gap(e) :
        a \in 0..MaxGap, c \in 0..MaxGap, e \in 0..MaxGap,
        b \in RunLengths, d \in RunLengths,
        k1 \in {"ramp", "zero", "alt"}, k2 \in {"ramp", "zero", "alt"}}

\* lines 102, 105-116: the run goes on only when at least half the rows
\* have an FWHM
EnoughRows(f) ==
    /\ Len(f) >= 1
    /\ ~(2*Cardinality({k \in 1..Len(f) : f[k] # None}) < Len(f))

FwhmInit ==
    /\ fwhm \in {f \in FwhmLists : EnoughRows(f)}
    /\ start = 0 /\ end = 0
    /\ one_fourth = 0 /\ halfway = 0 /\ three_fourths = 0
    /\ one_fourth_fwhm = None /\ halfway_fwhm = None
    /\ three_fourths_fwhm = None
    /\ fpc = "start"

\* lines 120-130
FindStart ==
    /\ fpc = "start"
    /\ UNCHANGED <<bvars, cvars>>
    /\ start' = StartLoop(fwhm, 0, 0)
    /\ fpc' = "end"
    /\ UNCHANGED <<fwhm, end, one_fourth, halfway, three_fourths,
                   one_fourth_fwhm, halfway_fwhm, three_fourths_fwhm>>

\* lines 134-142
FindEnd ==
    /\ fpc = "end"
    /\ UNCHANGED <<bvars, cvars>>
    /\ end' = EndLoop(fwhm, Len(fwhm) - 1, 0)
    /\ fpc' = "swaths"
    /\ UNCHANGED <<fwhm, start, one_fourth, halfway, three_fourths,
                   one_fourth_fwhm, halfway_fwhm, three_fourths_fwhm>>

\* lines 145-156
Swaths ==
    /\ fpc = "swaths"
    /\ UNCHANGED <<bvars, cvars>>
    /\ one_fourth' = ((3*start + end) \div 4) + one_fourth_offset + all_offset
    /\ halfway' = ((start + end) \div 2) + halfway_offset + all_offset
    /\ three_fourths' = ((start + 3*end) \div 4) + three_fourths_offset + all_offset
    /\ fpc' = "verify"
    /\ UNCHANGED <<fwhm, start, end, one_fourth_fwhm, halfway_fwhm,
                   three_fourths_fwhm>>

\* lines 166-169
Verify ==
    /\ fpc = "verify"
    /\ UNCHANGED <<bvars, cvars>>
    /\ fpc' = IF \/ one_fourth < start \/ one_fourth >= end
                 \/ halfway < start \/ halfway >= end
                 \/ three_fourths < start \/ three_fourths >= end
              THEN "BoundaryError" ELSE "avg25"
    /\ UNCHANGED <<fwhm, start, end, one_fourth, halfway, three_fourths,
                   one_fourth_fwhm, halfway_fwhm, three_fourths_fwhm>>

\* line 177
Avg25 ==
    /\ fpc = "avg25"
    /\ UNCHANGED <<bvars, cvars>>
    /\ LET res == get_avg_fwhm(one_fourth, fwhm)
       IN  /\ one_fourth_fwhm' = res.val
           /\ fpc' = IF res.err = "none" THEN "avg50" ELSE res.err
    /\ UNCHANGED <<fwhm, start, end, one_fourth, halfway, three_fourths,
                   halfway_fwhm, three_fourths_fwhm>>

\* line 180
Avg50 ==
    /\ fpc = "avg50"
    /\ UNCHANGED <<bvars, cvars>>
    /\ LET res == get_avg_fwhm(halfway, fwhm)
       IN  /\ halfway_fwhm' = res.val
           /\ fpc' = IF res.err = "none" THEN "avg75" ELSE res.err
    /\ UNCHANGED <<fwhm, start, end, one_fourth, halfway, three_fourths,
                   one_fourth_fwhm, three_fourths_fwhm>>

\* line 183
Avg75 ==
    /\ fpc = "avg75"
    /\ UNCHANGED <<bvars, cvars>>
    /\ LET res == get_avg_fwhm(three_fourths, fwhm)
       IN  /\ three_fourths_fwhm' = res.val
           /\ fpc' = IF res.err = "none" THEN "done" ELSE res.err
    /\ UNCHANGED <<fwhm, start, end, one_fourth, halfway, three_fourths,
                   one_fourth_fwhm, halfway_fwhm>>

FwhmNext ==
    \/ FindStart
    \/ FindEnd
    \/ Swaths
    \/ Verify
    \/ Avg25
    \/ Avg50
    \/ Avg75

InitFWHM == FwhmInit /\ BiasOff /\ CtrOff

SpecFWHM == InitFWHM /\ [][FwhmNext]_vars

(***************************************************************************)
(* Claims on the bias tool                                                 *)
(***************************************************************************)
Last(s) == s[Len(s)]

PeakCountAt(image, row) == Len(FindPeaksAt(image, row))

\* the candidates as the claim defines them: peak count > min_peaks
ClaimCandidates(image, min_p) ==
    {s \in RowStarts(image) : PeakCountAt(image, s) > min_p}

ClaimSelect(image, min_p) ==
    LET cands == ClaimCandidates(image, min_p)
    IN  IF cands = {} THEN -1
        ELSE CHOOSE s \in cands :
                /\ \A t \in cands : PeakCountAt(image, t) <= PeakCountAt(image, s)
                /\ \A t \in cands :
                      PeakCountAt(image, t) = PeakCountAt(image, s) => s <= t

\* C1: every scan of an image with rows > swath_size returns the smallest
\* row start whose peak count is the maximum over the row starts with more
\* than min_peaks peaks, in bounds, and -1 when there is no such row start.
C1_SelectsClaimedSwath ==
    \A k \in 1..Len(scans) :
        scans[k].img.rows > swath_size =>
            /\ scans[k].result = ClaimSelect(scans[k].img, min_peaks)
            /\ scans[k].result # -1 =>
                  scans[k].result + swath_size <= scans[k].img.rows

\* what line 64 makes of it: the same selection with the threshold doubled
C1_CodeSelectsAboveTwiceMinPeaks ==
    \A k \in 1..Len(scans) :
        scans[k].result = ClaimSelect(scans[k].img, 2*min_peaks)

NoCandidate(image) ==
    \A s \in RowStarts(image) : ~IsCandidate(FindPeaksAt(image, s), min_peaks)

Decided == {"err_image", "lineout", "left", "right", "report", "done", "err_peaks"}
Proceeded == {"left", "right", "report", "done", "err_peaks"}

\* C2: the image is rotated only after a scan of the original orientation
\* found no candidate, at most once; the unusable-image error is raised iff
\* both scans found no candidate; the lineout and peaks used come from the
\* orientation and swath of the winning scan.
C2_TwoAttemptFallback ==
    /\ Len(scans) <= 2
    /\ \A k \in 1..Len(scans) :
          scans[k].img.orient = (IF k = 1 THEN "orig" ELSE "rot")
    /\ img.orient = "rot" =>
          /\ Len(scans) = 2
          /\ NoCandidate(scans[1].img)
          /\ img = scans[2].img
    /\ Len(scans) = 2 => img.orient = "rot"
    /\ bpc \in Decided =>
          (bpc = "err_image" <=>
              /\ Len(scans) = 2
              /\ NoCandidate(scans[1].img)
              /\ NoCandidate(scans[2].img))
    /\ bpc \in Proceeded =>
          /\ Last(scans).result = swath_start
          /\ swath_start \in RowStarts(Last(scans).img)
          /\ lineout = [orient |-> Last(scans).img.orient, start |-> swath_start]
          /\ peaks = FindPeaksAt(Last(scans).img, swath_start)
          /\ IsCandidate(peaks, min_peaks)

C2_Witness ==
    /\ bpc = "done"
    /\ img.orient = "rot"
    /\ lineout.orient = "rot"
    /\ lineout.start > 0

\* C5: on a uniform comb of spacing d, with every_n_peaks = 1, a run of the
\* spacing loops that finds all its indices ends with both averages equal
\* to d and their difference 0.
IsUniform(pk, d) ==
    /\ Len(pk) >= 2
    /\ \A k \in 1..(Len(pk) - 1) : pk[k + 1] - pk[k] = d

C5_UniformComb ==
    \A d \in 1..(MaxSpacing + 1) :
        (bpc = "done" /\ every_n_peaks = 1 /\ IsUniform(peaks, d)) =>
            /\ avg_space_left.den = num_peaks - 1
            /\ avg_space_left.num = d * avg_space_left.den
            /\ avg_space_right.den = num_peaks - 1
            /\ avg_space_right.num = d * avg_space_right.den
            /\ difference.den # 0
            /\ difference.num = 0

C5_Witness ==
    /\ bpc = "done"
    /\ peaks = <<10, 20, 30, 40, 50, 60>>
    /\ num_peaks = 3 /\ every_n_peaks = 1
    /\ skip_peaks_left = 0 /\ skip_peaks_right = 0
    /\ avg_space_left = [num |-> 20, den |-> 2]
    /\ avg_space_right = [num |-> 20, den |-> 2]
    /\ difference.num = 0

\* C10: once a swath is selected, every peak index the flank loops read is
\* inside the PeakSet, the insufficient-peaks error is never raised, and
\* every left-flank peak lies strictly before every right-flank peak.
C10_FlanksInsidePeakSet ==
    /\ bpc # "err_peaks"
    /\ (bpc = "left" /\ i < (num_peaks - 1)*every_n_peaks) =>
          /\ i + skip_peaks_left >= 0
          /\ i + skip_peaks_left + every_n_peaks < Len(peaks)
    /\ (bpc = "right" /\ i >= 0) =>
          /\ RightStart(i) < 0
          /\ RightStart(i) - every_n_peaks >= -Len(peaks)
    /\ bpc \in {"report", "done"} =>
          /\ Len(peaks_counted) = 2*num_peaks
          /\ \A a \in 1..num_peaks : \A b \in (num_peaks + 1)..(2*num_peaks) :
                peaks_counted[a] < peaks_counted[b]

C10_Witness ==
    /\ bpc = "done"
    /\ skip_peaks_left > 0
    /\ every_n_peaks > 1
    /\ Len(peaks) = 2*min_peaks + 1
    /\ Len(peaks_counted) = 2*num_peaks
(***************************************************************************)
(* Claims on the CTR tool                                                  *)
(***************************************************************************)
\* the last get_ctr call returned: Last(image_ctr), l, r are its results
\* for the lineout in swath
CtrReturned == cpc \notin {"off", "first", "ValueError", "IndexError"}

Columns == 20..(LineLen - 21)

ClaimWindow(S, c) == {p \in S : c - 20 < p /\ p < c + 20}
ClaimP(ln, c) == SetMax({LineAt(ln, p) : p \in ClaimWindow(PeaksOf(ln), c)})
ClaimM(ln, c) == SetMin({LineAt(ln, p) : p \in ClaimWindow(MinsOf(ln), c)})

\* num/den > 1 (a zero divisor: +inf when num > 0)
RatioAboveOne(num, den) ==
    \/ den > 0 /\ num > den
    \/ den < 0 /\ num < den
    \/ den = 0 /\ num > 0

\* the column is recorded as valid: none of the three zero cases applies
ClaimSignificant(ln, c) ==
    /\ ClaimWindow(PeaksOf(ln), c) # {}
    /\ ClaimP(ln, c) >= background + stdev

ClaimKept(ln, c) ==
    /\ ClaimSignificant(ln, c)
    /\ ClaimWindow(MinsOf(ln), c) # {}
    /\ ~RatioAboveOne(ClaimP(ln, c) - ClaimM(ln, c),
                      ClaimP(ln, c) + ClaimM(ln, c) - 2*background)

\* the CTR the claim gives column c
ClaimCtr(ln, c) ==
    IF ClaimKept(ln, c)
    THEN [num |-> ClaimP(ln, c) - ClaimM(ln, c),
          den |-> ClaimP(ln, c) + ClaimM(ln, c) - 2*background]
    ELSE Zero

\* C3: in the row a get_ctr call returns, the value recorded for column c of
\* [20, len-20) is 0 when the window has no peak, 0 when P < background +
\* stdev, 0 when (P-M)/(P+M-2*background) > 1, and that ratio otherwise;
\* M exists wherever the ratio is called for (the call returned, so every
\* window with a significant peak held a detected minimum).
C3_CtrPerColumn ==
    CtrReturned =>
        /\ Len(Last(image_ctr)) = LineLen - 40
        /\ \A c \in Columns :
              /\ ClaimSignificant(swath, c) => ClaimWindow(MinsOf(swath), c) # {}
              /\ Last(image_ctr)[c - 19] = ClaimCtr(swath, c)

C3_Witness ==
    /\ CtrReturned
    /\ background = 0
    /\ \E c \in Columns :
          /\ ClaimWindow(PeaksOf(swath), c) # {}
          /\ ClaimWindow(MinsOf(swath), c) # {}
          /\ ClaimP(swath, c) = 100
          /\ ClaimM(swath, c) = 0
          /\ Last(image_ctr)[c - 19] = [num |-> 100, den |-> 100]

ClaimValid(ln) == {c \in Columns : ClaimKept(ln, c)}

\* C4: when some column is recorded as valid, get_ctr returns the smallest
\* such column as first_valid_col and the largest as last_valid_col.
C4_ValidRange ==
    (CtrReturned /\ ClaimValid(swath) # {}) =>
        /\ l = SetMin(ClaimValid(swath))
        /\ r = SetMax(ClaimValid(swath))

\* C9: entry k of a returned CTR row is the CTR of column k, also at the
\* returned first/last valid columns and at the points of interest, and row
\* y of the map is the profile of the swath starting at row y.
ClaimRow(ln) == [k \in 1..(LineLen - 40) |-> ClaimCtr(ln, k + 19)]

C9_EntryIsColumn ==
    CtrReturned =>
        \A k \in Columns : k < Len(Last(image_ctr)) =>
            Last(image_ctr)[k + 1] = ClaimCtr(swath, k)

C9_LimitsIndexRow ==
    CtrReturned =>
        \A k \in {l, r} : (k # None /\ k < Len(Last(image_ctr))) =>
            Last(image_ctr)[k + 1] = ClaimCtr(swath, k)

C9_RowIsSwath ==
    cpc \in {"points", "lookup", "done", "err_nan", "LookupIndexError"} =>
        \A row \in 0..(CtrRowStarts - 1) :
            image_ctr[row + 1] = ClaimRow(cimg.swaths[row + 1])

C9_PointsReadColumn ==
    cpc \in {"lookup", "done", "LookupIndexError"} =>
        \A k \in 1..Len(poi) : poi[k] = ClaimCtr(cimg.swaths[y[k] + 1], x[k])

C9_Traceable ==
    /\ C9_EntryIsColumn
    /\ C9_LimitsIndexRow
    /\ C9_RowIsSwath
    /\ C9_PointsReadColumn
\* C8: the background is the left edge of a bin of [0, 65000) holding the
\* most samples, and is defined for every 16-bit sample value.
BinCount(j) ==
    Cardinality({k \in 1..Len(pixels) :
                    650*j <= pixels[k] /\ pixels[k] < 650*(j + 1)})

C8_LeftEdgeOfFullestBin ==
    cpc \in {"estimated", "BinIndexError"} =>
        /\ cpc = "estimated"
        /\ \E j \in 0..99 :
              /\ background = 650*j
              /\ \A k \in 0..99 : BinCount(k) <= BinCount(j)

(***************************************************************************)
(* Claims on the FWHM tool                                                 *)
(***************************************************************************)
\* row starts (0-based) of the runs of 5 consecutive non-None values
RunsOfFive == {k \in 0..(Len(fwhm) - 5) : \A j \in 1..5 : fwhm[k + j] # None}

\* C6: the span start is the index of the first element of the earliest run
\* of 5 consecutive non-None values.
C6_SpanStart ==
    (fpc \notin {"off", "start"} /\ RunsOfFive # {}) =>
        start = SetMin(RunsOfFive)

\* the window of the claim: indices center-20 .. center+19, all in the list
ClaimIndices(center) == (center - 20)..(center + 19)
ClaimInside(center) == center - 20 >= 0 /\ center + 19 < Len(fwhm)
ClaimEntries(center) == {k \in ClaimIndices(center) : fwhm[k + 1] # None}

RECURSIVE SumOver(_)
SumOver(S) ==
    IF S = {} THEN 0
    ELSE LET k == CHOOSE e \in S : TRUE IN fwhm[k + 1] + SumOver(S \ {k})

ClaimAverage(center) ==
    SumOver(ClaimEntries(center)) \div Cardinality(ClaimEntries(center))

\* the get_avg_fwhm calls made so far: <<center, result, failed>>
AvgCalls ==
    LET all == <<[center |-> one_fourth, val |-> one_fourth_fwhm],
                 [center |-> halfway, val |-> halfway_fwhm],
                 [center |-> three_fourths, val |-> three_fourths_fwhm]>>
        failed == fpc \in {"IndexError", "ZeroDivisionError"}
        n == IF fpc = "avg50" THEN 1 ELSE IF fpc = "avg75" THEN 2
             ELSE IF fpc = "done" THEN 3
             ELSE IF ~failed THEN 0
             ELSE IF one_fourth_fwhm = None THEN 1
             ELSE IF halfway_fwhm = None THEN 2 ELSE 3
    IN  [k \in 1..n |-> [center |-> all[k].center, val |-> all[k].val,
                         err |-> IF failed /\ k = n THEN fpc ELSE "none"]]

\* C7: a call whose window lies in the list returns floor(S / C) over the
\* non-None entries of the window, zeros included, and fails with a
\* division by zero exactly when C = 0.
C7_SampleAverage ==
    \A k \in 1..Len(AvgCalls) :
        LET call == AvgCalls[k]
        IN  ClaimInside(call.center) =>
              /\ call.err = "ZeroDivisionError" <=> ClaimEntries(call.center) = {}
              /\ call.err # "IndexError"
              /\ call.err = "none" => call.val = ClaimAverage(call.center)
====
